---- MODULE Spec2Model ----
(***************************************************************************)
(* Model of the destination-kit runtime (src/lib/destination-kit/index.ts) *)
(* and of the request Context (lib/context).                               *)
(*                                                                         *)
(* Spec / FairSpec : one Destination.onEvent call, its concurrent          *)
(*                   onSubscription tasks, Promise.all and the Context log *)
(* SpecCred        : the Destination builder calls followed by one         *)
(*                   Destination.testCredentials call                      *)
(***************************************************************************)
EXTENDS Integers, Sequences, FiniteSets, TLC

(* ------------------------------ bounds --------------------------------- *)
\* longest settings.subscriptions list that is enumerated
MaxSubs == 2
\* most request extensions registered with extendRequest
MaxExt == 2
\* invocations of the cached request step
MaxCallers == 3
\* times the cache clock advances
MaxTicks == 2
\* invocations of the remove-contact action
MaxInvocations == 2
\* longest Context log written by direct append calls
MaxLog == 3
\* the most metadatas one answer of the control plane holds
MaxMetadatas == 2

(* ------------------------------ values --------------------------------- *)
Undefined == "undefined"
Redacted == "<REDACTED>"
NotSubscribed == "not subscribed"

EventTypes == {"track", "page"}
Emails == {"a@x.io", Undefined}
\* the events handed to onEvent: a type and an optional email property
Events == [type : EventTypes, email : Emails]

\* slugs a subscription may name; "ghost" and "toString" are never registered
Slugs == {"checked", "plain", "ghost", "toString"}
\* the members every plain object inherits from Object.prototype
ObjectPrototype ==
  {"constructor", "hasOwnProperty", "isPrototypeOf", "propertyIsEnumerable", "toLocaleString",
   "toString", "valueOf", "__proto__", "__defineGetter__", "__defineSetter__",
   "__lookupGetter__", "__lookupSetter__"}
\* the registry built at startup: slug -> ordered step list of the action
Registry == [checked |-> <<"validate", "request">>, plain |-> <<"request">>]

\* destination settings besides the subscriptions key
SettingValues == [apiKey |-> "secret-key", region |-> "eu"]
PrivateChoices == {<<>>, <<"apiKey">>}

Subscriptions == [partnerAction : Slugs, subscribe : [type : EventTypes], mapping : {Undefined}]

RECURSIVE SeqsUpTo(_, _)
SeqsUpTo(S, n) ==
  IF n = 0 THEN {<<>>}
  ELSE LET shorter == SeqsUpTo(S, n - 1)
       IN  shorter \cup {Append(q, x) : q \in {r \in shorter : Len(r) = n - 1}, x \in S}

\* the subscription lists a caller may configure
SubscriptionLists == SeqsUpTo(Subscriptions, MaxSubs)

\* JSON.stringify of a subscription, as a sequence of tokens; the undefined
\* mapping is left out
JSONStringifySubscription(sub) ==
  <<"{", "partnerAction", ":", sub.partnerAction, ",",
    "subscribe", ":", "{", "type", ":", sub.subscribe.type, "}", "}">>

RECURSIVE JSONStringifyElements(_)
JSONStringifyElements(l) ==
  IF l = <<>> THEN <<>>
  ELSE IF Len(l) = 1 THEN JSONStringifySubscription(l[1])
  ELSE JSONStringifySubscription(l[1]) \o <<",">> \o JSONStringifyElements(Tail(l))

\* JSON.stringify of a subscription list
JSONStringify(l) == <<"[">> \o JSONStringifyElements(l) \o <<"]">>

\* the JSON text of every subscription list
EncodingTable == [l \in SubscriptionLists |-> JSONStringify(l)]

\* texts that are not the JSON of a list: a number, and texts cut short
OtherTexts ==
  {<<"5">>} \cup {SubSeq(EncodingTable[l], 1, Len(EncodingTable[l]) - 1) :
                     l \in {m \in SubscriptionLists : Len(m) <= 1}}

\* the encodings of settings.subscriptions: a native array, a string, a
\* number, or absent
SubscriptionSettings ==
  {[kind |-> "array", value |-> l] : l \in SubscriptionLists}
    \cup {[kind |-> "string", value |-> EncodingTable[l]] : l \in SubscriptionLists}
    \cup {[kind |-> "string", value |-> t] : t \in OtherTexts}
    \cup {[kind |-> "number", value |-> <<>>], [kind |-> Undefined, value |-> <<>>]}

SettingsChoices ==
  {[k \in DOMAIN SettingValues \cup {"subscriptions"} |->
      IF k = "subscriptions" THEN s ELSE SettingValues[k]] : s \in SubscriptionSettings}

Range(f) == {f[i] : i \in DOMAIN f}

VARIABLES
  partnerActions,   \* Destination.partnerActions
  requestExtensions,\* Destination.requestExtensions
  settingsSchema,   \* Destination.settingsSchema
  auth,             \* Destination.auth
  event,            \* onEvent argument
  settings,         \* onEvent / testCredentials argument
  privateSettings,  \* onEvent argument
  ctx,              \* Context.fields.subscriptions
  tasks,            \* the onSubscription promises of the call, by index
  promiseAll,       \* the Promise.all(promises) promise
  onEvent,          \* the promise returned by onEvent
  settleOrder,      \* indices of the tasks in the order they settled
  now,              \* the clock read by time()
  cred,             \* the testCredentials call
  actionExtensions, \* the request extensions of each registered Action
  responses,        \* Destination.responses
  fields,           \* the scalar fields of Context.fields
  cache,            \* the entries of the cached request step, by key
  inflight,         \* the computation in flight of the cached step, by key
  calls,            \* the invocations of the cached step
  running,          \* value functions of the cached step now running, by key
  computes,         \* value functions of the cached step started so far, by key
  clock,            \* the time the cache reads
  rc,               \* the invocations of the remove-contact action
  outbox,           \* the requests the remove-contact action sent to the partner
  push              \* the run of the push command

vars == <<partnerActions, requestExtensions, settingsSchema, auth, event, settings,
          privateSettings, ctx, tasks, promiseAll, onEvent, settleOrder, now, cred,
          actionExtensions, responses, fields, cache, inflight, calls, running, computes,
          clock, rc, outbox, push>>

destVars == <<partnerActions, requestExtensions, settingsSchema, auth, actionExtensions>>
eventVars == <<event, settings, privateSettings, ctx, tasks, promiseAll, onEvent, settleOrder,
               now, responses>>
cacheVars == <<cache, inflight, calls, running, computes, clock>>
\* what neither the destination nor an event call touches
idleVars == <<fields, cache, inflight, calls, running, computes, clock, rc, outbox, push>>
\* the remove-contact action and the push command
toolVars == <<rc, outbox, push>>

(* ----------------------- pure functions of index.ts -------------------- *)

\* the subscription object that starts at token pos of a JSON text
ParsesSubscription(text, pos) ==
  /\ pos + 12 <= Len(text)
  /\ <<text[pos], text[pos + 1], text[pos + 2]>> = <<"{", "partnerAction", ":">>
  /\ <<text[pos + 4], text[pos + 5], text[pos + 6]>> = <<",", "subscribe", ":">>
  /\ <<text[pos + 7], text[pos + 8], text[pos + 9]>> = <<"{", "type", ":">>
  /\ <<text[pos + 11], text[pos + 12]>> = <<"}", "}">>

ParsedSubscription(text, pos) ==
  [partnerAction |-> text[pos + 3], subscribe |-> [type |-> text[pos + 10]],
   mapping |-> Undefined]

\* the elements of a JSON array from token pos on, after the elements acc
RECURSIVE JSONParseElements(_, _, _)
JSONParseElements(text, pos, acc) ==
  IF ~ParsesSubscription(text, pos) \/ pos + 13 > Len(text)
  THEN [kind |-> "SyntaxError", value |-> <<>>]
  ELSE LET list == Append(acc, ParsedSubscription(text, pos))
       IN  IF text[pos + 13] = "]" /\ pos + 13 = Len(text)
           THEN [kind |-> "array", value |-> list]
           ELSE IF text[pos + 13] = ","
                THEN JSONParseElements(text, pos + 14, list)
                ELSE [kind |-> "SyntaxError", value |-> <<>>]

\* JSON.parse of a text: an array of subscriptions, a number, or a
\* SyntaxError
JSONParse(text) ==
  IF text = <<"5">> THEN [kind |-> "number", value |-> <<>>]
  ELSE IF text = <<"[", "]">> THEN [kind |-> "array", value |-> <<>>]
  ELSE IF Len(text) < 2 \/ text[1] # "[" THEN [kind |-> "SyntaxError", value |-> <<>>]
  ELSE JSONParseElements(text, 2, <<>>)

\* variant: a string is not parsed
getSubscriptions_NoParse(s) == s["subscriptions"]

\* getSubscriptions: the subscriptions value of the settings, parsed when it
\* is a string and as it is otherwise
getSubscriptions(s) ==
  LET v == s["subscriptions"]
  IN  IF v.kind = "string" THEN JSONParse(v.value) ELSE v

\* variant: the settings are handed on as they are
getDestinationSettings_Keep(s) == s

\* getDestinationSettings: every key but subscriptions
getDestinationSettings(s) == [k \in DOMAIN s \ {"subscriptions"} |-> s[k]]

\* validate(subscription.subscribe, event) of the predicate evaluator
validate(subscribe, ev) == subscribe.type = ev.type

\* redactSettings: private keys replaced by the placeholder
redactSettings(s, private) ==
  [k \in DOMAIN s |-> IF k \in Range(private) THEN Redacted ELSE s[k]]

\* ExecuteInput built by onSubscription
ExecuteInput(sub, ev, s) == [payload |-> ev, mapping |-> sub.mapping, settings |-> s]

\* variant: the settings are logged as they are
InstrumentInput_Raw(sub, ev, s, private, results, dur) ==
  [duration |-> dur,
   destination |-> "destination",
   action |-> sub.partnerAction,
   input |-> ExecuteInput(sub, ev, s),
   output |-> results]

\* the record onSubscription hands to instrumentSubscription
InstrumentInput(sub, ev, s, private, results, dur) ==
  [duration |-> dur,
   destination |-> "destination",
   action |-> sub.partnerAction,
   input |-> [ExecuteInput(sub, ev, s) EXCEPT !.settings = redactSettings(s, private)],
   output |-> results]

\* variant: the field is overwritten with the new value
ContextAppend_Overwrite(log, value) == <<value>>

\* Context.append('subscriptions', value)
ContextAppend(log, value) == Append(log, value)

\* instrumentSubscription
instrumentSubscription(log, input) ==
  ContextAppend(log, [duration |-> input.duration,
                      destination |-> input.destination,
                      action |-> input.action,
                      input |-> input.input,
                      output |-> input.output])

duration(start, stop) == stop - start

(* ------------------------- the action pipeline ------------------------- *)

\* output of a step of an action that ran without raising
StepOutput == [checked |-> [validate |-> "checked:valid", request |-> "checked:response"],
               plain |-> [request |-> "plain:response"]]

\* the payload schema of the "checked" action and the settings schema
PayloadSchema == [defined |-> TRUE, required |-> {"email"}]
SettingsSchema == [defined |-> TRUE, required |-> {"apiKey"}]
\* the undefined settingsSchema and auth of a new Destination
NoSchema == [defined |-> FALSE, required |-> {}]
NoAuth == [defined |-> FALSE, type |-> Undefined, options |-> Undefined]

\* JSON-Schema validation: every required property is present
ValidateSchema(schema, value) ==
  \A k \in schema.required : k \in DOMAIN value /\ value[k] # Undefined

\* Step.executeStep: a validate step raises when the payload violates the
\* schema, a request step raises when the partner call fails
ExecuteStep(slug, kind, input, netOk) ==
  IF kind = "validate"
  THEN IF ~ValidateSchema(PayloadSchema, input.payload)
       THEN [ok |-> FALSE, output |-> Undefined, error |-> "ValidationError"]
       ELSE [ok |-> TRUE, output |-> StepOutput[slug][kind], error |-> "none"]
  ELSE IF netOk
       THEN [ok |-> TRUE, output |-> StepOutput[slug][kind], error |-> "none"]
       ELSE [ok |-> FALSE, output |-> Undefined, error |-> "RequestError"]

(* ------------------------------ promises ------------------------------- *)

\* the input of a task that has built none
NoInput == [payload |-> [type |-> Undefined, email |-> Undefined], mapping |-> Undefined,
            settings |-> [apiKey |-> Undefined]]

NoTask == [state |-> "none", stepsRun |-> 0, results |-> <<>>, error |-> "none", startedAt |-> 0,
           input |-> NoInput]

\* this.partnerActions[actionSlug] on the plain object: the registered
\* action, a member the object inherits, or undefined
PartnerActionsGet(registry, slug) ==
  IF slug \in DOMAIN registry THEN "action"
  ELSE IF slug \in ObjectPrototype THEN "inherited"
  ELSE Undefined

\* onSubscription from the action lookup to the call of action.execute: an
\* undefined value raises BadRequest; a value that is no action passes the
\* guard, the time is read, and the call of its execute raises a TypeError
OnSubscriptionLookup(sub, registry, t) ==
  LET action == PartnerActionsGet(registry, sub.partnerAction)
  IN  IF action = Undefined
      THEN [NoTask EXCEPT !.state = "rejected", !.error = "BadRequest"]
      ELSE IF action = "inherited"
           THEN [NoTask EXCEPT !.state = "rejected", !.error = "TypeError", !.startedAt = t]
           ELSE [NoTask EXCEPT !.state = "executing", !.startedAt = t]

\* variant: the action is looked up before the predicate is consulted
OnSubscriptionStart_LookupFirst(sub, ev, registry, t) ==
  LET task == OnSubscriptionLookup(sub, registry, t)
  IN  IF task.state = "rejected" THEN task
      ELSE IF ~validate(sub.subscribe, ev)
           THEN [NoTask EXCEPT !.state = "resolved", !.results = <<[output |-> NotSubscribed]>>]
           ELSE task

\* variant: a subscription that names no action is left out
OnSubscriptionStart_SkipUnknown(sub, ev, registry, t) ==
  IF ~validate(sub.subscribe, ev)
  THEN [NoTask EXCEPT !.state = "resolved", !.results = <<[output |-> NotSubscribed]>>]
  ELSE IF sub.partnerAction \notin DOMAIN registry
       THEN [NoTask EXCEPT !.state = "resolved"]
       ELSE OnSubscriptionLookup(sub, registry, t)

\* variant: the predicate is not consulted
OnSubscriptionStart_NoShortCircuit(sub, ev, registry, t) ==
  OnSubscriptionLookup(sub, registry, t)

\* onSubscription up to its first await: predicate, action lookup, input
OnSubscriptionStart(sub, ev, registry, t) ==
  IF ~validate(sub.subscribe, ev)
  THEN [NoTask EXCEPT !.state = "resolved", !.results = <<[output |-> NotSubscribed]>>]
  ELSE OnSubscriptionLookup(sub, registry, t)

\* onSubscription up to its await of action.execute, with the ExecuteInput it
\* hands to the action
OnSubscription(sub, ev, s, registry, t) ==
  LET task == OnSubscriptionStart(sub, ev, registry, t)
  IN  IF task.state = "executing"
      THEN [task EXCEPT !.input = ExecuteInput(sub, ev, s)]
      ELSE task

\* the promise Promise.all returns for n promises: pending, no reaction run
PromiseAllNew(n) ==
  [state |-> IF n = 0 THEN "fulfilled" ELSE "pending",
   values |-> [i \in 1..n |-> <<>>],
   remaining |-> n,
   reason |-> "none",
   reacted |-> 0]

\* variant: the values are collected in completion order
PromiseAllResolveElement_Push(p, i, v) ==
  IF p.state # "pending" THEN p
  ELSE [p EXCEPT !.values[Len(p.values) - p.remaining + 1] = v,
                 !.remaining = p.remaining - 1,
                 !.state = IF p.remaining = 1 THEN "fulfilled" ELSE "pending"]

\* Promise.all's resolve-element function of the promise at index i
PromiseAllResolveElement(p, i, v) ==
  IF p.state # "pending" THEN p
  ELSE [p EXCEPT !.values[i] = v,
                 !.remaining = p.remaining - 1,
                 !.state = IF p.remaining = 1 THEN "fulfilled" ELSE "pending"]

\* Promise.all's reject function: the first rejection settles the promise
PromiseAllReject(p, r) ==
  IF p.state # "pending" THEN p ELSE [p EXCEPT !.state = "rejected", !.reason = r]

PromiseAllReact(p, i, task) ==
  IF task.state = "resolved" THEN PromiseAllResolveElement(p, i, task.results)
  ELSE IF task.state = "rejected" THEN PromiseAllReject(p, task.error)
  ELSE p

\* Promise.all(promises): the call registers a reaction on every promise and
\* returns a pending promise; no reaction runs in the call
PromiseAll(ts) == PromiseAllNew(Len(ts))

\* Array.prototype.flat of the per-subscription result lists
RECURSIVE Flat(_)
Flat(ls) == IF ls = <<>> THEN <<>> ELSE Head(ls) \o Flat(Tail(ls))

\* the promises already settled when Promise.all registers its reactions:
\* their reaction jobs are queued in index order
RECURSIVE SettledIndices(_, _)
SettledIndices(ts, i) ==
  IF i > Len(ts) THEN <<>>
  ELSE (IF ts[i].state \in {"resolved", "rejected"} THEN <<i>> ELSE <<>>)
         \o SettledIndices(ts, i + 1)

(* --------------------------- onEvent actions --------------------------- *)

IdleCall == [state |-> "idle", value |-> <<>>, error |-> "none"]
NoPromiseAll == [state |-> "none", values |-> <<>>, remaining |-> 0, reason |-> "none",
                 reacted |-> 0]
\* a testCredentials call not made yet: its position, the schema of its
\* Validate step, the extensions its loop went over, the request it composed
IdleCred == [pc |-> "idle", error |-> "none", schema |-> NoSchema, extensions |-> <<>>,
             request |-> <<>>, probe |-> "none"]

\* onEvent up to its await: parse the subscriptions, strip them from the
\* settings, start one onSubscription per subscription, call Promise.all
OnEventCall ==
  /\ onEvent.state = "idle"
  /\ LET subscriptions == getSubscriptions(settings)
         destinationSettings == getDestinationSettings(settings)
     IN  IF subscriptions.kind # "array"
         THEN /\ onEvent' = [onEvent EXCEPT
                               !.state = "rejected",
                               !.error = IF subscriptions.kind = "SyntaxError"
                                         THEN "SyntaxError" ELSE "TypeError"]
              /\ UNCHANGED <<tasks, promiseAll, settleOrder>>
         ELSE LET ts == [i \in 1..Len(subscriptions.value) |->
                           OnSubscription(subscriptions.value[i], event, destinationSettings,
                                          partnerActions, now)]
              IN  /\ tasks' = ts
                  /\ promiseAll' = PromiseAll(ts)
                  /\ settleOrder' = SettledIndices(ts, 1)
                  /\ onEvent' = [onEvent EXCEPT !.state = "pending"]
  /\ UNCHANGED <<event, settings, privateSettings, ctx, now, cred, responses>>
  /\ UNCHANGED destVars
  /\ UNCHANGED idleVars

\* variant: the list holds the last response only
ResponseHandler_Reset(resps, response) == <<response>>

\* the 'response' handler partnerAction registers on every action
ResponseHandler(resps, response) == Append(resps, response)

\* Action.execute: the next step of the pipeline runs; its result is added to
\* the results, and the first step that raises ends the pipeline with its
\* error: the promise of execute is rejected ("raised") and onSubscription,
\* which awaits it, has not resumed yet
ActionExecuteStep(task, slug, steps, input, netOk) ==
  LET k == task.stepsRun + 1
      r == ExecuteStep(slug, steps[k], input, netOk)
  IN  IF r.ok
      THEN [task EXCEPT !.stepsRun = k,
                        !.results = Append(@, [output |-> r.output]),
                        !.state = IF k = Len(steps) THEN "executed" ELSE "executing"]
      ELSE [task EXCEPT !.stepsRun = k, !.state = "raised", !.error = r.error]

\* the action.execute awaited by task i runs its next step
StepRun(i) ==
  /\ i \in DOMAIN tasks
  /\ tasks[i].state = "executing"
  /\ LET sub == getSubscriptions(settings).value[i]
         slug == sub.partnerAction
         steps == partnerActions[slug]
         input == tasks[i].input
     IN  \E netOk \in BOOLEAN :
           LET t == ActionExecuteStep(tasks[i], slug, steps, input, netOk)
           IN  /\ (steps[t.stepsRun] = "validate" => netOk)
               /\ tasks' = [tasks EXCEPT ![i] = t]
               /\ responses' = IF steps[t.stepsRun] = "request" /\ t.state # "raised"
                                THEN ResponseHandler(responses, StepOutput[slug]["request"])
                                ELSE responses
  /\ now' = now + 1
  /\ UNCHANGED <<event, settings, privateSettings, ctx, promiseAll, onEvent, settleOrder, cred>>
  /\ UNCHANGED destVars
  /\ UNCHANGED idleVars

\* variant: a subscription of an aborted call is dropped
OnSubscriptionResume_Aborted(i) ==
  /\ i \in DOMAIN tasks
  /\ tasks[i].state \in {"executed", "raised"}
  /\ tasks[i].state = "executed" => promiseAll.state # "rejected"
  /\ LET sub == getSubscriptions(settings).value[i]
         rec == InstrumentInput(sub, event, getDestinationSettings(settings), privateSettings,
                                tasks[i].results, duration(tasks[i].startedAt, now))
     IN  IF tasks[i].state = "raised"
         THEN /\ tasks' = [tasks EXCEPT ![i].state = "rejected"]
              /\ ctx' = ctx
         ELSE /\ tasks' = [tasks EXCEPT ![i].state = "resolved"]
              /\ ctx' = instrumentSubscription(ctx, rec)
  /\ settleOrder' = Append(settleOrder, i)
  /\ UNCHANGED <<event, settings, privateSettings, promiseAll, onEvent, now, cred, responses>>
  /\ UNCHANGED destVars
  /\ UNCHANGED idleVars

\* onSubscription after its await: when execute raised, reject with its
\* error; else measure, instrument, return the results
OnSubscriptionResume(i) ==
  /\ i \in DOMAIN tasks
  /\ tasks[i].state \in {"executed", "raised"}
  /\ LET sub == getSubscriptions(settings).value[i]
         rec == InstrumentInput(sub, event, getDestinationSettings(settings), privateSettings,
                                tasks[i].results, duration(tasks[i].startedAt, now))
     IN  IF tasks[i].state = "raised"
         THEN /\ tasks' = [tasks EXCEPT ![i].state = "rejected"]
              /\ ctx' = ctx
         ELSE /\ tasks' = [tasks EXCEPT ![i].state = "resolved"]
              /\ ctx' = instrumentSubscription(ctx, rec)
  /\ settleOrder' = Append(settleOrder, i)
  /\ UNCHANGED <<event, settings, privateSettings, promiseAll, onEvent, now, cred, responses>>
  /\ UNCHANGED destVars
  /\ UNCHANGED idleVars

\* the next reaction job of Promise.all runs: the jobs run in the order the
\* promises settled, each on the promise it was registered on
PromiseAllReaction ==
  /\ promiseAll.state # "none"
  /\ promiseAll.reacted < Len(settleOrder)
  /\ LET i == settleOrder[promiseAll.reacted + 1]
     IN  promiseAll' = [PromiseAllReact(promiseAll, i, tasks[i]) EXCEPT !.reacted = @ + 1]
  /\ UNCHANGED <<event, settings, privateSettings, ctx, tasks, onEvent, settleOrder, now, cred,
                 responses>>
  /\ UNCHANGED destVars
  /\ UNCHANGED idleVars

\* onEvent after its await: return results.flat(), or fail with the rejection
OnEventResume ==
  /\ onEvent.state = "pending"
  /\ promiseAll.state \in {"fulfilled", "rejected"}
  /\ onEvent' = IF promiseAll.state = "fulfilled"
                THEN [onEvent EXCEPT !.state = "resolved", !.value = Flat(promiseAll.values)]
                ELSE [onEvent EXCEPT !.state = "rejected", !.error = promiseAll.reason]
  /\ UNCHANGED <<event, settings, privateSettings, ctx, tasks, promiseAll, settleOrder, now, cred, responses>>
  /\ UNCHANGED destVars
  /\ UNCHANGED idleVars

(* ------------------------- the cached request step --------------------- *)

\* ttl of the cached contact lookup, in seconds
Ttl == 60
\* seconds the cache clock advances at a time
TickStep == Ttl \div 2
\* cache keys: the payload.email of the invocation
Keys == {"a@x.io", "o'b@x.io"}
\* the accounts (settings) an invocation runs with
Accounts == {"key-A", "key-B"}
Callers == 1..MaxCallers

NoValue == [email |-> Undefined, account |-> Undefined]
NoEntry == [present |-> FALSE, value |-> NoValue, expiry |-> 0]
IdleSlot == [active |-> FALSE, account |-> Undefined, last |-> "none"]
IdleCaller == [pc |-> "idle", key |-> Undefined, account |-> Undefined, flight |-> 0,
               outcome |-> "none", value |-> NoValue]

\* the entry of a key at time t: an expired entry is evicted on access
CacheGet(entry, t) == IF entry.present /\ t < entry.expiry THEN entry ELSE NoEntry

\* variant: every miss starts its own computation
StartsCompute_Always(slot) == TRUE

\* a miss starts a computation unless one is in flight for the key
StartsCompute(slot) == ~slot.active

\* variant: the outcome is stored whether or not the computation failed
CacheAfterSettle_Always(entry, ok, value, t) ==
  [present |-> TRUE, value |-> value, expiry |-> t + Ttl]

\* the entry of a key after its computation settled: a failure stores nothing
CacheAfterSettle(entry, ok, value, t) ==
  IF ok THEN [present |-> TRUE, value |-> value, expiry |-> t + Ttl] ELSE entry

\* invocation c of the cached step with key k under account a: a hit returns
\* the entry, a miss joins the computation in flight or starts one
GetOrComputeBody(c, k, a) ==
  /\ calls[c].pc = "idle"
  /\ LET entry == CacheGet(cache[k], clock)
     IN  /\ cache' = [cache EXCEPT ![k] = entry]
         /\ IF entry.present
            THEN /\ calls' = [calls EXCEPT ![c] = [pc |-> "done", key |-> k, account |-> a,
                                                   flight |-> 0, outcome |-> "hit",
                                                   value |-> entry.value]]
                 /\ UNCHANGED <<inflight, running, computes>>
            ELSE IF StartsCompute(inflight[k])
                 THEN /\ inflight' = [inflight EXCEPT ![k].active = TRUE, ![k].account = a]
                      /\ running' = [running EXCEPT ![k] = @ + 1]
                      /\ computes' = [computes EXCEPT ![k] = @ + 1]
                      /\ calls' = [calls EXCEPT ![c] = [IdleCaller EXCEPT
                                     !.pc = "waiting", !.key = k, !.account = a,
                                     !.flight = computes[k] + 1]]
                 ELSE /\ calls' = [calls EXCEPT ![c] = [IdleCaller EXCEPT
                                     !.pc = "waiting", !.key = k, !.account = a,
                                     !.flight = computes[k]]]
                      /\ UNCHANGED <<inflight, running, computes>>
  /\ UNCHANGED clock

\* the cached step on its own: the invocations call in the order of their
\* numbers
GetOrCompute(c, k, a) ==
  /\ \A d \in Callers : d < c => calls[d].pc # "idle"
  /\ GetOrComputeBody(c, k, a)
  /\ UNCHANGED <<fields, cred>>
  /\ UNCHANGED toolVars
  /\ UNCHANGED destVars
  /\ UNCHANGED eventVars

\* the value function running for key k returns or raises; every invocation
\* waiting for the key receives the outcome
ComputeSettle(k, ok) ==
  /\ running[k] > 0
  /\ LET value == [email |-> k, account |-> inflight[k].account]
     IN  /\ cache' = [cache EXCEPT ![k] = CacheAfterSettle(@, ok, value, clock)]
         /\ calls' = [c \in Callers |->
                        IF calls[c].pc = "waiting" /\ calls[c].key = k
                        THEN [calls[c] EXCEPT !.pc = "done",
                                              !.outcome = IF ok THEN "computed" ELSE "failed",
                                              !.value = IF ok THEN value ELSE NoValue]
                        ELSE calls[c]]
  /\ running' = [running EXCEPT ![k] = @ - 1]
  /\ inflight' = [inflight EXCEPT ![k].active = FALSE,
                                  ![k].last = IF ok THEN "ok" ELSE "fail"]
  /\ UNCHANGED <<computes, clock>>
  /\ UNCHANGED <<fields, cred>>
  /\ UNCHANGED toolVars
  /\ UNCHANGED destVars
  /\ UNCHANGED eventVars

\* time passes
Tick ==
  /\ clock < MaxTicks * TickStep
  /\ clock' = clock + TickStep
  /\ UNCHANGED <<cache, inflight, calls, running, computes>>
  /\ UNCHANGED <<fields, cred>>
  /\ UNCHANGED toolVars
  /\ UNCHANGED destVars
  /\ UNCHANGED eventVars

(* ------------------------------- Context ------------------------------- *)

\* the fields of a Context named here; the types SetFields and AppendFields
\* tell the compiler which of them set and append accept, and are gone in the
\* code that runs
FieldNames == {"http_res_status", "req_route", "error", "subscriptions"}
AppendFields == {"subscriptions"}
SetFields == FieldNames \ AppendFields
FieldValues == [http_res_status |-> {"200", "500"}, req_route |-> {"/actions"},
                error |-> {"boom"}, subscriptions |-> {<<>>}]

\* the fields of a new Context
NewFields == [f \in SetFields |-> Undefined]

\* the entries a caller appends
LogEntries ==
  {InstrumentInput([partnerAction |-> slug, subscribe |-> [type |-> "track"], mapping |-> Undefined],
                   [type |-> "track", email |-> "a@x.io"], SettingValues, <<"apiKey">>,
                   <<[output |-> StepOutput[slug]["request"]]>>, 1) : slug \in DOMAIN Registry}

\* this.fields of the Context: the scalar fields and the subscriptions log
ContextFields ==
  [f \in FieldNames |-> IF f = "subscriptions" THEN ctx ELSE fields[f]]

\* the fields of the Context that hold an array
IsArrayField(field) == field = "subscriptions"

\* Context.set: this.fields[field] = value, whichever field is named
ContextSet(field, value) ==
  /\ LET after == [ContextFields EXCEPT ![field] = value]
     IN  /\ fields' = [f \in SetFields |-> after[f]]
         /\ ctx' = after["subscriptions"]
  /\ UNCHANGED <<event, settings, privateSettings, tasks, promiseAll, onEvent, settleOrder,
                 now, responses, cred>>
  /\ UNCHANGED destVars
  /\ UNCHANGED cacheVars
  /\ UNCHANGED toolVars

\* Context.append, called by one of the concurrent writers:
\* this.fields[field].push(value), a TypeError that leaves the Context as it
\* was when the field holds no array
ContextAppendCall(field, value) ==
  /\ Len(ctx) < MaxLog
  /\ ctx' = IF IsArrayField(field) THEN ContextAppend(ctx, value) ELSE ctx
  /\ UNCHANGED <<event, settings, privateSettings, tasks, promiseAll, onEvent, settleOrder,
                 now, responses, cred, fields>>
  /\ UNCHANGED destVars
  /\ UNCHANGED cacheVars
  /\ UNCHANGED toolVars

(* ------------------ the SendGrid remove-contact action ----------------- *)

Null == "null"

\* the characters of the texts sgqlEscape is given or returns
Spelling ==
  ("a@x.io" :> <<"a", "@", "x", ".", "i", "o">>) @@
  ("o'b@x.io" :> <<"o", "'", "b", "@", "x", ".", "i", "o">>) @@
  ("ob@x.io" :> <<"o", "b", "@", "x", ".", "i", "o">>)

\* the text made of the given characters
Spelled(chars) == CHOOSE t \in DOMAIN Spelling : Spelling[t] = chars

\* sgqlEscape: s.replace(/['"]/g, ''), the text without its quote characters
sgqlEscape(s) == Spelled(SelectSeq(Spelling[s], LAMBDA ch : ch \notin {"'", "\""}))

\* the emails a search query can name
QueryEmails == {sgqlEscape(e) : e \in Keys}

\* the contacts of each SendGrid account: the id the search returns for an
\* email, null, or nothing when no contact matches
Directory ==
  [a \in Accounts |->
     IF a = "key-A" THEN [e \in QueryEmails |-> IF e = "a@x.io" THEN "contact-A1" ELSE Null]
     ELSE [e \in QueryEmails |-> IF e = "a@x.io" THEN "contact-B1" ELSE Undefined]]

Invocations == 1..MaxInvocations

\* the payloads of the invocations: an email, or none
RemovePayloads == [email : Keys \cup {Undefined}]

\* key: ({ payload }) => payload.email
CacheKey(payload) == payload.email

\* get(search.body, 'result[0].id') of the search for the escaped email, run
\* under the account of the computation
SearchResult(value) == Directory[value.account][sgqlEscape(value.email)]

\* variant: only null stops the delete
RemoveContactRequest_NullOnly(contactId) ==
  IF contactId = Null
  THEN [sent |-> FALSE, state |-> "resolved", output |-> Null]
  ELSE [sent |-> TRUE, state |-> "pending", output |-> Undefined]

\* the request step: no call and null for a null or undefined contactId,
\* else the delete is sent and its promise, still pending, is returned
RemoveContactRequest(contactId) ==
  IF contactId = Null \/ contactId = Undefined
  THEN [sent |-> FALSE, state |-> "resolved", output |-> Null]
  ELSE [sent |-> TRUE, state |-> "pending", output |-> Undefined]

\* a remove-contact invocation that has not started
IdleRemove == [pc |-> "idle", email |-> Undefined, account |-> Undefined, ran |-> <<>>,
               lookup |-> NoValue, contactId |-> Undefined, result |-> "none",
               error |-> "none"]

(* ---------------------------- the push command ------------------------- *)

\* the integrations the prompt offers, in the order of the choices: the
\* keys of invert(idToSlug)
AvailableSlugs == <<"sendgrid", "slack", "webhook">>
\* invert(idToSlug)
slugToId == [sendgrid |-> "id-sendgrid", slack |-> "id-slack", webhook |-> "id-webhook"]
\* the slug of a destination id
SlugOfId(id) == CHOOSE slug \in DOMAIN slugToId : slugToId[slug] = id
\* the actions of the definition of each integration that has a definition
\* among the destinations of the package; webhook has an id and none
SchemaActions == [sendgrid |-> <<"createList", "removeContact">>, slack |-> <<"postToChannel">>]
actionDestinations == DOMAIN SchemaActions

\* getJsonSchemas: the ids, among those chosen, of the destinations that
\* have a definition; the keys of schemasByDestination
getJsonSchemas(destinationIds) ==
  {slugToId[slug] : slug \in {d \in actionDestinations : slugToId[d] \in Range(destinationIds)}}

\* the place of a slug among the choices
ChoiceOf(slug) == CHOOSE i \in DOMAIN AvailableSlugs : AvailableSlugs[i] = slug
\* the selections of the multiselect prompt: some of the choices, in the
\* order of the choices
Selections ==
  {sel \in SeqsUpTo(Range(AvailableSlugs), Len(AvailableSlugs)) :
     \A i \in 1..(Len(sel) - 1) : ChoiceOf(sel[i]) < ChoiceOf(sel[i + 1])}
\* every (destination id, action slug) of a definition
ActionKeys ==
  UNION {{<<slugToId[slug], SchemaActions[slug][i]>> : i \in DOMAIN SchemaActions[slug]} :
           slug \in DOMAIN SchemaActions}
\* the actions the control plane may already hold, of the cloud platform or
\* of another
ExistingActions ==
  {[metadataId |-> k[1], slug |-> k[2], platform |-> pf] :
     k \in ActionKeys, pf \in {"cloud", "web"}}

\* the options the control plane may hold for a destination: those the
\* definition yields, or older ones
MetadataOptions == {"published", "outdated"}

\* the metadatas getAllDestinationMetadatas may return: any list of
\* metadatas, whatever ids were asked for
MetadataLists ==
  SeqsUpTo([id : Range(slugToId), options : MetadataOptions], MaxMetadatas)

\* what a call to the control plane answers: an error, no data, or data
Responses(datas) ==
  {[kind |-> "error", data |-> <<>>], [kind |-> "nodata", data |-> <<>>]}
    \cup {[kind |-> "data", data |-> d] : d \in datas}
\* the answers to getAllDestinationMetadatas
MetadataResponses == Responses(MetadataLists)
\* the answers to getDestinationMetadataActions
ActionsResponses == Responses(SUBSET ExistingActions)
\* the answers to a write, whose data run does not read
WriteResponses == Responses({<<>>})

\* the body the five control-plane helpers share: throw the error, throw
\* when there is no data, else return the data
Unwrap(response, message) ==
  CASE response.kind = "error" -> [ok |-> FALSE, error |-> "HTTPError", value |-> <<>>]
    [] response.kind = "nodata" -> [ok |-> FALSE, error |-> message, value |-> <<>>]
    [] OTHER -> [ok |-> TRUE, error |-> "none", value |-> response.data]

getDestinationMetadatas(response) == Unwrap(response, "Could not load metadatas")
getDestinationMetadataActions(response) == Unwrap(response, "Could not load actions")
updateDestinationMetadata(response) == Unwrap(response, "Could not update metadata")
createDestinationMetadataActions(response) ==
  Unwrap(response, "Could not create metadata actions")
updateDestinationMetadataActions(response) ==
  Unwrap(response, "Could not update metadata actions")

\* settingsDiff is not empty: the options of the metadata differ from those
\* the definition yields
SettingsDiff(metadata) == metadata.options # "published"

\* the second loop of run: one item per metadata and action of its schema,
\* marked with whether the control plane holds a cloud action of that
\* metadata under the slug
ActionItems(metadatas, actions) ==
  Flat([m \in DOMAIN metadatas |->
          LET acts == SchemaActions[SlugOfId(metadatas[m].id)]
              existingActions == {a \in actions : a.metadataId = metadatas[m].id}
          IN  [i \in DOMAIN acts |->
                 [dest |-> metadatas[m].id, slug |-> acts[i],
                  exists |-> \E a \in existingActions :
                               a.slug = acts[i] /\ a.platform = "cloud"]]])

\* the items of a write call, as writes to the control plane
RECURSIVE ActionWrites(_, _)
ActionWrites(items, op) ==
  IF items = <<>> THEN <<>>
  ELSE <<[op |-> op, dest |-> Head(items).dest, slug |-> Head(items).slug]>>
         \o ActionWrites(Tail(items), op)

\* the push command before its first prompt; updates holds the promises of
\* the updateDestinationMetadata calls, awaited whether run has reached its
\* await of them, actionCalls the state of the two calls of the dual write
IdlePush == [pc |-> "select", force |-> FALSE, chosen |-> <<>>, metadatas |-> <<>>,
             next |-> 1, skipped |-> {}, declined |-> {}, confirmed |-> {},
             updates |-> <<>>, awaited |-> FALSE,
             actionCalls |-> [update |-> "none", create |-> "none"],
             writes |-> <<>>, error |-> "none"]

\* first step of invocation c: validatePayload
RemoveValidatePayload(c, payload, a) ==
  /\ rc[c].pc = "idle"
  /\ \A d \in Callers : d < c => rc[d].pc # "idle"
  /\ rc' = [rc EXCEPT ![c] =
              IF ValidateSchema(PayloadSchema, payload)
              THEN [IdleRemove EXCEPT !.pc = "validated", !.email = payload.email,
                                      !.account = a, !.ran = <<"validatePayload">>]
              ELSE [IdleRemove EXCEPT !.pc = "failed", !.email = payload.email,
                                      !.account = a, !.ran = <<"validatePayload">>,
                                      !.error = "ValidationError"]]
  /\ UNCHANGED <<outbox, push, fields, cred>>
  /\ UNCHANGED cacheVars
  /\ UNCHANGED destVars
  /\ UNCHANGED eventVars

\* second step of invocation c: the cached contact lookup is called
RemoveCachedRequest(c) ==
  /\ rc[c].pc = "validated"
  /\ GetOrComputeBody(c, CacheKey([email |-> rc[c].email]), rc[c].account)
  /\ rc' = [rc EXCEPT ![c].pc = "lookup", ![c].ran = Append(@, "cachedRequest")]
  /\ UNCHANGED <<outbox, push, fields, cred>>
  /\ UNCHANGED destVars
  /\ UNCHANGED eventVars

\* the lookup of invocation c has settled: a failure halts the pipeline,
\* else the value is written under contactId and the request step runs; it
\* returns null, or sends the delete and the invocation waits for it
RemoveRequest(c) ==
  /\ rc[c].pc = "lookup"
  /\ calls[c].pc = "done"
  /\ IF calls[c].outcome = "failed"
     THEN /\ rc' = [rc EXCEPT ![c].pc = "failed", ![c].error = "HTTPError"]
          /\ UNCHANGED outbox
     ELSE LET contactId == SearchResult(calls[c].value)
              r == RemoveContactRequest(contactId)
          IN  /\ rc' = [rc EXCEPT ![c].pc = IF r.state = "pending" THEN "deleting" ELSE "done",
                                  ![c].ran = Append(@, "request"),
                                  ![c].lookup = calls[c].value,
                                  ![c].contactId = contactId,
                                  ![c].result = IF r.state = "pending" THEN "none" ELSE r.output]
              /\ outbox' = IF r.sent
                           THEN Append(outbox, [method |-> "DELETE", ids |-> contactId,
                                                account |-> rc[c].account, by |-> c])
                           ELSE outbox
  /\ UNCHANGED <<push, fields, cred>>
  /\ UNCHANGED cacheVars
  /\ UNCHANGED destVars
  /\ UNCHANGED eventVars

\* the delete invocation c sent returns or raises
RemoveDeleteSettle(c, ok) ==
  /\ rc[c].pc = "deleting"
  /\ rc' = IF ok THEN [rc EXCEPT ![c].pc = "done", ![c].result = "deleted"]
           ELSE [rc EXCEPT ![c].pc = "failed", ![c].error = "HTTPError"]
  /\ UNCHANGED <<outbox, push, fields, cred>>
  /\ UNCHANGED cacheVars
  /\ UNCHANGED destVars
  /\ UNCHANGED eventVars

\* run up to the fetch: the multiselect prompt, the exit on no choice, and
\* the call of getDestinationMetadatas
PushSelect(chosenSlugs, force) ==
  /\ push.pc = "select"
  /\ push' = [push EXCEPT !.pc = IF chosenSlugs = <<>> THEN "exited" ELSE "fetching",
                          !.force = force,
                          !.chosen = [i \in DOMAIN chosenSlugs |-> slugToId[chosenSlugs[i]]]]
  /\ UNCHANGED <<rc, outbox, fields, cred>>
  /\ UNCHANGED cacheVars
  /\ UNCHANGED destVars
  /\ UNCHANGED eventVars

\* await Promise.all(promises) of run p: it throws the rejection of the
\* first update that has failed, goes on to call
\* getDestinationMetadataActions when every update has returned, and waits
\* otherwise
AwaitUpdates(p) ==
  LET rejected == {n \in DOMAIN p.updates : p.updates[n].state = "rejected"}
      first == CHOOSE n \in rejected : \A m \in rejected : n <= m
      q == [p EXCEPT !.awaited = TRUE]
  IN  IF rejected # {}
      THEN [q EXCEPT !.pc = "failed", !.error = p.updates[first].error]
      ELSE IF \A n \in DOMAIN p.updates : p.updates[n].state = "fulfilled"
           THEN [q EXCEPT !.pc = "actions"]
           ELSE [q EXCEPT !.pc = "joining"]

\* the first loop of run p from metadata number from on, up to its next
\* await: a metadata of a destination without a schema ends run with a
\* TypeError at schemaForDestination.slug, the metadatas without a diff are
\* skipped unless force is set, the first other one is shown and its confirm
\* prompt awaited, and past the last one the updates are awaited
FirstLoopFrom(p, from) ==
  LET schemasByDestination == getJsonSchemas(p.chosen)
      stops == {i \in from..Len(p.metadatas) :
                  \/ p.metadatas[i].id \notin schemasByDestination
                  \/ SettingsDiff(p.metadatas[i])
                  \/ p.force}
      next == IF stops = {} THEN Len(p.metadatas) + 1
              ELSE CHOOSE i \in stops : \A j \in stops : i <= j
      q == [p EXCEPT !.next = next,
                     !.skipped = @ \cup {p.metadatas[i].id : i \in from..(next - 1)}]
  IN  IF next > Len(p.metadatas) THEN AwaitUpdates(q)
      ELSE IF p.metadatas[next].id \notin schemasByDestination
           THEN [q EXCEPT !.pc = "failed", !.next = next + 1, !.error = "TypeError"]
           ELSE [q EXCEPT !.pc = "confirm"]

\* getDestinationMetadatas returns or throws, the data being whatever
\* metadatas the control plane answered; run throws when their number is
\* not the number of schemas built, else enters the first loop
PushMetadatasLoaded(response) ==
  /\ push.pc = "fetching"
  /\ LET r == getDestinationMetadatas(response)
     IN  push' =
           IF ~r.ok THEN [push EXCEPT !.pc = "failed", !.error = r.error]
           ELSE IF Len(r.value) # Cardinality(getJsonSchemas(push.chosen))
                THEN [push EXCEPT !.pc = "failed",
                                  !.error = "Number of metadatas must match number of schemas"]
                ELSE FirstLoopFrom([push EXCEPT !.metadatas = r.value], 1)
  /\ UNCHANGED <<rc, outbox, fields, cred>>
  /\ UNCHANGED cacheVars
  /\ UNCHANGED destVars
  /\ UNCHANGED eventVars

\* the confirm prompt of the metadata shown returns: on no the loop goes
\* on, on yes updateDestinationMetadata is called and its promise kept, and
\* the loop goes on
PushConfirm(shouldContinue) ==
  /\ push.pc = "confirm"
  /\ LET id == push.metadatas[push.next].id
     IN  push' =
           IF ~shouldContinue
           THEN FirstLoopFrom([push EXCEPT !.declined = @ \cup {id}], push.next + 1)
           ELSE FirstLoopFrom(
                  [push EXCEPT !.confirmed = @ \cup {id},
                               !.writes = Append(@, [op |-> "updateDestinationMetadata",
                                                     dest |-> id, slug |-> Undefined]),
                               !.updates = Append(@, [dest |-> id, state |-> "pending",
                                                      error |-> "none"])],
                  push.next + 1)
  /\ UNCHANGED <<rc, outbox, fields, cred>>
  /\ UNCHANGED cacheVars
  /\ UNCHANGED destVars
  /\ UNCHANGED eventVars

\* the control plane answers update call n, whatever run is doing. A
\* failure that arrives before run awaits the updates, while a prompt is
\* open, is a rejection nothing handles: a runtime that ends the process on
\* it does so (exits), one that only warns leaves the failure in the promise
\* until run awaits the updates. A run awaiting them throws on a failure
\* and goes on after the last return
PushUpdateSettle(n, response, exits) ==
  /\ push.pc # "crashed"
  /\ n \in DOMAIN push.updates
  /\ push.updates[n].state = "pending"
  /\ LET r == updateDestinationMetadata(response)
         p == [push EXCEPT !.updates[n].state = IF r.ok THEN "fulfilled" ELSE "rejected",
                           !.updates[n].error = r.error]
     IN  push' = IF push.pc = "joining" THEN AwaitUpdates(p)
                 ELSE IF ~r.ok /\ ~push.awaited /\ push.pc = "confirm" /\ exits
                      THEN [p EXCEPT !.pc = "crashed", !.error = r.error]
                      ELSE p
  /\ UNCHANGED <<rc, outbox, fields, cred>>
  /\ UNCHANGED cacheVars
  /\ UNCHANGED destVars
  /\ UNCHANGED eventVars

\* getDestinationMetadataActions returns or throws; the second loop sorts
\* every action of every metadata into the update or the create list, and
\* both write calls are made
PushActionsLoaded(response) ==
  /\ push.pc = "actions"
  /\ LET r == getDestinationMetadataActions(response)
         items == ActionItems(push.metadatas, r.value)
         actionsToUpdate == SelectSeq(items, LAMBDA x : x.exists)
         actionsToCreate == SelectSeq(items, LAMBDA x : ~x.exists)
     IN  push' =
           IF ~r.ok THEN [push EXCEPT !.pc = "failed", !.error = r.error]
           ELSE [push EXCEPT
                   !.pc = "writing",
                   !.actionCalls = [update |-> "pending", create |-> "pending"],
                   !.writes = @ \o ActionWrites(actionsToUpdate, "updateDestinationMetadataActions")
                                \o ActionWrites(actionsToCreate, "createDestinationMetadataActions")]
  /\ UNCHANGED <<rc, outbox, fields, cred>>
  /\ UNCHANGED cacheVars
  /\ UNCHANGED destVars
  /\ UNCHANGED eventVars

\* the control plane answers one of the two write calls; a run awaiting
\* them throws on the first failure and ends after both have returned
PushActionsWriteSettle(call, response) ==
  /\ push.actionCalls[call] = "pending"
  /\ LET r == IF call = "update" THEN updateDestinationMetadataActions(response)
              ELSE createDestinationMetadataActions(response)
         p == [push EXCEPT !.actionCalls[call] = IF r.ok THEN "fulfilled" ELSE "rejected"]
     IN  push' =
           IF push.pc # "writing" THEN p
           ELSE IF ~r.ok THEN [p EXCEPT !.pc = "failed", !.error = r.error]
           ELSE IF \A x \in DOMAIN p.actionCalls : p.actionCalls[x] = "fulfilled"
                THEN [p EXCEPT !.pc = "done"]
                ELSE p
  /\ UNCHANGED <<rc, outbox, fields, cred>>
  /\ UNCHANGED cacheVars
  /\ UNCHANGED destVars
  /\ UNCHANGED eventVars

\* the state of the parts a specification does not exercise
IdleInit ==
  /\ rc = [c \in Callers |-> IdleRemove]
  /\ outbox = <<>>
  /\ push = IdlePush
  /\ fields = NewFields
  /\ cache = [k \in Keys |-> NoEntry]
  /\ inflight = [k \in Keys |-> IdleSlot]
  /\ calls = [c \in Callers |-> IdleCaller]
  /\ running = [k \in Keys |-> 0]
  /\ computes = [k \in Keys |-> 0]
  /\ clock = 0

\* a new Destination with its actions registered and the arguments of one
\* onEvent call; the event type is fixed, the subscriptions range over both
Init ==
  /\ IdleInit
  /\ actionExtensions = [slug \in DOMAIN Registry |-> <<>>]
  /\ responses = <<>>
  /\ partnerActions = Registry
  /\ requestExtensions = <<>>
  /\ settingsSchema = NoSchema
  /\ auth = NoAuth
  /\ event \in {e \in Events : e.type = "track"}
  /\ settings \in SettingsChoices
  /\ privateSettings \in PrivateChoices
  /\ ctx = <<>>
  /\ tasks = <<>>
  /\ promiseAll = NoPromiseAll
  /\ onEvent = IdleCall
  /\ settleOrder = <<>>
  /\ now = 0
  /\ cred = IdleCred

Next ==
  \/ OnEventCall
  \/ \E i \in 1..MaxSubs : StepRun(i)
  \/ \E i \in 1..MaxSubs : OnSubscriptionResume(i)
  \/ PromiseAllReaction
  \/ OnEventResume

Spec == Init /\ [][Next]_vars

\* the calls whose scheduling is followed to the end: a native subscription
\* list and no private settings, since neither the parse nor the redaction
\* takes part in the scheduling
InitFair ==
  /\ Init
  /\ settings["subscriptions"].kind = "array"
  /\ privateSettings = <<>>

\* the event loop runs every continuation that is ready, and a partner call
\* completes or times out
FairSpec ==
  /\ InitFair
  /\ [][Next]_vars
  /\ WF_vars(OnEventCall)
  /\ WF_vars(OnEventResume)
  /\ WF_vars(PromiseAllReaction)
  /\ \A i \in 1..MaxSubs : WF_vars(StepRun(i)) /\ WF_vars(OnSubscriptionResume(i))

(* ------------------------- properties of onEvent ----------------------- *)

Parsed == getSubscriptions(settings).kind = "array"
Subs == getSubscriptions(settings).value
Called == onEvent.state # "idle"
Settled == onEvent.state \in {"resolved", "rejected"}
Matched(i) == validate(Subs[i].subscribe, event)
Registered(i) == Subs[i].partnerAction \in DOMAIN partnerActions
\* the pipeline of subscription i raised in one of its steps
PipelineFailed(i) == tasks[i].state = "rejected" /\ tasks[i].stepsRun > 0
HasEntry(i) ==
  \E j \in DOMAIN ctx : ctx[j].action = Subs[i].partnerAction /\ ctx[j].output = tasks[i].results

\* C1 as stated: when the subscriptions parsed and the pipeline of a matched
\* subscription failed, the settled onEvent call has returned the result list.
C1_Original ==
  (Settled /\ Parsed /\ \E i \in DOMAIN tasks : PipelineFailed(i)) => onEvent.state = "resolved"

TwoMatchingOneUnknown ==
  /\ Parsed
  /\ Len(Subs) = 2
  /\ Matched(1) /\ Matched(2)
  /\ Registered(1) # Registered(2)

\* C2 as stated: with two matching subscriptions of which exactly one names an
\* unregistered slug, onEvent succeeds and the registered one's result is in
\* the returned list.
C2_Original ==
  (Settled /\ TwoMatchingOneUnknown) =>
    /\ onEvent.state = "resolved"
    /\ \E i \in DOMAIN tasks :
         Registered(i) /\ tasks[i].results # <<>> /\ onEvent.value = tasks[i].results

\* the error a matching subscription with an unregistered slug fails with
LookupError(i) == IF Subs[i].partnerAction \in ObjectPrototype THEN "TypeError" ELSE "BadRequest"
\* the reaction of Promise.all on task i has run
Reacted(i) ==
  \E a \in DOMAIN settleOrder : settleOrder[a] = i /\ a <= promiseAll.reacted

\* C2 amended: with two matching subscriptions of which exactly one names an
\* unregistered slug, the unknown one rejects with BadRequest (TypeError when
\* the slug names a member every object inherits), the registered one is
\* still started, Promise.all never fulfils and rejects with that error as
\* soon as it reacts to the rejection, and onEvent fails as a whole with that
\* error and returns no list.
C2_UnknownSiblingAborts ==
  (Called /\ TwoMatchingOneUnknown) =>
    \A u \in DOMAIN tasks :
      ~Registered(u) =>
        /\ tasks[u].state = "rejected" /\ tasks[u].error = LookupError(u)
        /\ \A i \in DOMAIN tasks :
             Registered(i) =>
               /\ tasks[i].state \in {"executing", "executed", "raised", "resolved", "rejected"}
               /\ tasks[i].error \notin {"BadRequest", "TypeError"}
        /\ promiseAll.state \in {"pending", "rejected"}
        /\ Reacted(u) => promiseAll.state = "rejected" /\ promiseAll.reason = LookupError(u)
        /\ Settled => onEvent = [state |-> "rejected", value |-> <<>>, error |-> LookupError(u)]

C2_Witness ==
  /\ TwoMatchingOneUnknown
  /\ onEvent.state = "rejected"
  /\ \E i \in DOMAIN tasks : Registered(i) /\ tasks[i].state = "resolved"

\* C3 as stated: when a matching subscription names a slug that is not in
\* the registry, the settled call has failed with BadRequest and has
\* returned no list.
C3_Original ==
  (Settled /\ Parsed /\ \E i \in DOMAIN Subs : Matched(i) /\ ~Registered(i)) =>
    onEvent = [state |-> "rejected", value |-> <<>>, error |-> "BadRequest"]

\* C4: the list onEvent returns is the concatenation of the subscriptions'
\* results in declaration order, whatever the order the tasks completed in.
C4_DeclarationOrder ==
  onEvent.state = "resolved" =>
    onEvent.value = Flat([i \in DOMAIN tasks |-> tasks[i].results])

C4_Witness ==
  /\ onEvent.state = "resolved"
  /\ \E a, b \in DOMAIN settleOrder : a < b /\ settleOrder[a] > settleOrder[b]
  /\ \E i, j \in DOMAIN tasks : tasks[i].results # tasks[j].results

\* C5: a subscription whose predicate does not match contributes the single
\* result "not subscribed" and none of its action's steps runs.
C5_NotSubscribed ==
  LET parsed == getSubscriptions(settings)
      subs == parsed.value
  IN  (Called /\ parsed.kind = "array") =>
        \A i \in DOMAIN subs :
          ~validate(subs[i].subscribe, event) =>
            /\ tasks[i].state = "resolved"
            /\ tasks[i].results = <<[output |-> NotSubscribed]>>
            /\ tasks[i].stepsRun = 0
            /\ promiseAll.state = "fulfilled" =>
                 promiseAll.values[i] = <<[output |-> NotSubscribed]>>

C5_Witness ==
  /\ onEvent.state = "resolved"
  /\ \E i, j \in DOMAIN Subs : ~Matched(i) /\ Registered(i) /\ Matched(j) /\ tasks[j].stepsRun > 0

\* the place of task i in the order the tasks settled
Position(i) == CHOOSE a \in DOMAIN settleOrder : settleOrder[a] = i
InFlight(i) == i \in DOMAIN tasks /\ tasks[i].state \in {"executing", "executed", "raised"}
Finished(i) ==
  /\ i \in DOMAIN tasks
  /\ \/ PipelineFailed(i)
     \/ /\ tasks[i].state = "resolved"
        /\ Matched(i) /\ Registered(i)
        /\ tasks[i].stepsRun = Len(partnerActions[Subs[i].partnerAction])
        /\ HasEntry(i)

\* C6: after a sibling has failed, every subscription still in flight goes on:
\* it fails in its own pipeline, or it runs all its steps and its record is
\* appended to the Context.
C6_SiblingsComplete ==
  \A i \in 1..MaxSubs : (InFlight(i) /\ promiseAll.state = "rejected") ~> Finished(i)

C6_Witness ==
  \E i, j \in DOMAIN tasks :
    /\ i # j
    /\ tasks[j].state = "rejected"
    /\ promiseAll.state = "rejected"
    /\ tasks[i].state = "resolved" /\ Matched(i) /\ HasEntry(i)
    /\ Position(i) > Position(j)

\* C7 as stated: once onEvent has settled, no subscription task writes the
\* Context.
C7_Original == [][Settled => ctx' = ctx]_vars

\* C8 as stated: after the call has finished the log holds one entry per
\* configured subscription.
C8_Original == (Settled /\ Parsed) => Len(ctx) = Len(Subs)

\* C8 amended: the log holds exactly one entry per subscription that matched
\* and whose onSubscription returned, each with the five instrumentation
\* fields, and none for the others; once onEvent has returned its list that
\* is one entry per matching subscription.
C8_OneEntryPerCompleted ==
  LET parsed == getSubscriptions(settings)
      subs == parsed.value
      returned(i) == validate(subs[i].subscribe, event) /\ tasks[i].state = "resolved"
      entryOf(j, i) == ctx[j].action = subs[i].partnerAction /\ ctx[j].output = tasks[i].results
  IN  (Called /\ parsed.kind = "array") =>
        /\ Len(ctx) = Cardinality({i \in DOMAIN tasks : returned(i)})
        /\ \A i \in DOMAIN tasks : returned(i) => \E j \in DOMAIN ctx : entryOf(j, i)
        /\ \A j \in DOMAIN ctx : \E i \in DOMAIN tasks : returned(i) /\ entryOf(j, i)
        /\ \A j \in DOMAIN ctx :
             DOMAIN ctx[j] = {"duration", "destination", "action", "input", "output"}
        /\ onEvent.state = "resolved" =>
             Len(ctx) = Cardinality({i \in DOMAIN subs : validate(subs[i].subscribe, event)})

C8_Witness ==
  /\ onEvent.state = "resolved"
  /\ Len(ctx) >= 1
  /\ \E i \in DOMAIN Subs : ~Matched(i)

\* C9: no entry of the Context log holds the original value of a private
\* setting: every private key of a logged input carries the placeholder.
C9_PrivateRedacted ==
  \A j \in DOMAIN ctx :
    \A k \in DOMAIN ctx[j].input.settings :
      k \in Range(privateSettings) =>
        /\ ctx[j].input.settings[k] = Redacted
        /\ ctx[j].input.settings[k] # settings[k]

C9_Witness ==
  /\ ctx # <<>>
  /\ "apiKey" \in Range(privateSettings)
  /\ ctx[1].input.settings["region"] = settings["region"]

(* --------------------- builder and testCredentials --------------------- *)

\* the request extensions a destination may register
Extensions == {"bearer", "region", "timeout", "defaults"}

\* the settings handed to testCredentials
CredSettingsChoices ==
  {[apiKey |-> "secret-key", region |-> "eu"], [region |-> "eu"], [apiKey |-> "expired-key"]}

\* outcomes of the credential probe
ProbeOutcomes == {"ok", "HTTPError", "TimeoutError"}

\* the partial request options an extension returns for an ExecuteInput;
\* headers is an object of header values, hooks the list of beforeRequest
\* hooks, and the authorization text is built from a setting that may be
\* missing
ApplyExtension(e, input) ==
  CASE e = "bearer" ->
         [headers |-> ("authorization" :> IF "apiKey" \in DOMAIN input.settings
                                          THEN input.settings["apiKey"] ELSE Undefined),
          hooks |-> <<"sign">>]
    [] e = "region" ->
         [prefixUrl |-> IF "region" \in DOMAIN input.settings
                        THEN input.settings["region"] ELSE Undefined,
          timeout |-> 1000]
    [] e = "timeout" -> [timeout |-> 5000]
    [] e = "defaults" ->
         [prefixUrl |-> "https://api.partner",
          headers |-> ("accept" :> "application/json"),
          hooks |-> <<"log">>]

\* the options give k a value other than undefined; of the options named
\* here only prefixUrl is ever given undefined
IsDefined(options, k) ==
  /\ k \in DOMAIN options
  /\ k = "prefixUrl" => options[k] # Undefined

\* the headers of the instance with the given ones laid over them, name by name
MergeHeaders(old, new) ==
  [h \in DOMAIN old \cup DOMAIN new |-> IF h \in DOMAIN new THEN new[h] ELSE old[h]]

\* got's extend: the options of the instance merged with the given ones; an
\* option given as undefined stays as it was, the headers are merged name by
\* name, the hooks are added behind the hooks already there, and any other
\* option takes the given value
GotExtend(request, options) ==
  [k \in DOMAIN request |->
     IF ~IsDefined(options, k) THEN request[k]
     ELSE CASE k = "headers" -> MergeHeaders(request[k], options[k])
            [] k = "hooks" -> request[k] \o options[k]
            [] OTHER -> options[k]]

\* the options testCredentials starts from: the three it names, and got's
\* own defaults for the prefix and the hooks
BaseRequest ==
  [retry |-> 0, timeout |-> 3000, headers |-> ("user-agent" :> Undefined),
   prefixUrl |-> "", hooks |-> <<>>]

\* variant: the loop goes over the extensions from the last to the first
RECURSIVE ComposeRequest_Reversed(_, _, _)
ComposeRequest_Reversed(request, extensions, context) ==
  IF extensions = <<>> THEN request
  ELSE ComposeRequest_Reversed(
         GotExtend(request, ApplyExtension(extensions[Len(extensions)], context)),
         SubSeq(extensions, 1, Len(extensions) - 1), context)

\* the loop over this.requestExtensions of testCredentials
RECURSIVE ComposeRequest(_, _, _)
ComposeRequest(request, extensions, context) ==
  IF extensions = <<>> THEN request
  ELSE ComposeRequest(GotExtend(request, ApplyExtension(Head(extensions), context)),
                      Tail(extensions), context)

CredContext == [settings |-> settings, payload |-> <<>>]

\* Destination.extendRequest
ExtendRequest(extensions) ==
  /\ Len(requestExtensions) + Len(extensions) <= MaxExt
  /\ requestExtensions' = requestExtensions \o extensions
  /\ UNCHANGED <<partnerActions, settingsSchema, auth, cred, actionExtensions>>
  /\ UNCHANGED eventVars
  /\ UNCHANGED idleVars

\* Action.extendRequest: the action's own list grows by the given extensions
ActionExtendRequest(own, extensions) == own \o extensions

\* Destination.partnerAction: a new action takes the extensions registered so
\* far, and the action the definition builds is stored under the slug
PartnerAction(slug) ==
  /\ slug \in DOMAIN Registry
  /\ actionExtensions' = [x \in DOMAIN actionExtensions \cup {slug} |->
                            IF x = slug THEN ActionExtendRequest(<<>>, requestExtensions)
                            ELSE actionExtensions[x]]
  /\ partnerActions' = [x \in DOMAIN partnerActions \cup {slug} |->
                          IF x = slug THEN Registry[slug] ELSE partnerActions[x]]
  /\ UNCHANGED <<requestExtensions, settingsSchema, auth, cred>>
  /\ UNCHANGED eventVars
  /\ UNCHANGED idleVars

\* Destination.validateSettings
ValidateSettings(schema) ==
  /\ settingsSchema' = schema
  /\ UNCHANGED <<partnerActions, requestExtensions, auth, cred, actionExtensions>>
  /\ UNCHANGED eventVars
  /\ UNCHANGED idleVars

\* Destination.apiKeyAuth
ApiKeyAuth(options) ==
  /\ auth' = [defined |-> TRUE, type |-> "apiKey", options |-> options]
  /\ UNCHANGED <<partnerActions, requestExtensions, settingsSchema, cred, actionExtensions>>
  /\ UNCHANGED eventVars
  /\ UNCHANGED idleVars

\* testCredentials from the settings check on, for the call c: return
\* without auth, else compose the request over the extensions registered by
\* now and start the probe
CredAfterValidation(c) ==
  IF ~auth.defined
  THEN [c EXCEPT !.pc = "done"]
  ELSE [c EXCEPT !.pc = "probing",
                 !.extensions = requestExtensions,
                 !.request = ComposeRequest(BaseRequest, requestExtensions, CredContext)]

\* testCredentials up to its first await: the Validate step is built from
\* the schema registered by now
TestCredentialsCall ==
  /\ cred.pc = "idle"
  /\ cred' = IF settingsSchema.defined
             THEN [cred EXCEPT !.pc = "validating", !.schema = settingsSchema]
             ELSE CredAfterValidation(cred)
  /\ UNCHANGED destVars
  /\ UNCHANGED eventVars
  /\ UNCHANGED idleVars

\* the awaited settings validation step returns or raises
TestCredentialsValidated ==
  /\ cred.pc = "validating"
  /\ cred' = IF ValidateSchema(cred.schema, settings)
             THEN CredAfterValidation(cred)
             ELSE [cred EXCEPT !.pc = "done", !.error = "ValidationError"]
  /\ UNCHANGED destVars
  /\ UNCHANGED eventVars
  /\ UNCHANGED idleVars

\* the awaited probe returns or raises; the catch rethrows the generic error
TestCredentialsProbed ==
  /\ cred.pc = "probing"
  /\ \E outcome \in ProbeOutcomes :
       cred' = [cred EXCEPT !.pc = "done",
                            !.probe = outcome,
                            !.error = IF outcome = "ok" THEN "none"
                                      ELSE "Credentials are invalid"]
  /\ UNCHANGED destVars
  /\ UNCHANGED eventVars
  /\ UNCHANGED idleVars

InitCred ==
  /\ IdleInit
  /\ actionExtensions = <<>>
  /\ responses = <<>>
  /\ partnerActions = <<>>
  /\ requestExtensions = <<>>
  /\ settingsSchema = NoSchema
  /\ auth = NoAuth
  /\ event = [type |-> "track", email |-> Undefined]
  /\ settings \in CredSettingsChoices
  /\ privateSettings = <<>>
  /\ ctx = <<>>
  /\ tasks = <<>>
  /\ promiseAll = NoPromiseAll
  /\ onEvent = IdleCall
  /\ settleOrder = <<>>
  /\ now = 0
  /\ cred = IdleCred

NextCred ==
  \/ \E es \in SeqsUpTo(Extensions, MaxExt) : ExtendRequest(es)
  \/ \E slug \in DOMAIN Registry : PartnerAction(slug)
  \/ ValidateSettings(SettingsSchema)
  \/ ApiKeyAuth("probe")
  \/ TestCredentialsCall
  \/ TestCredentialsValidated
  \/ TestCredentialsProbed

SpecCred == InitCred /\ [][NextCred]_vars

(* ------------------- the Context and the cache on their own ------------- *)

\* a new Context beside a new Destination
InitCtx == InitCred /\ settings = SettingValues

\* the writers of one request set fields and append entries in any order
NextCtx ==
  \/ \E f \in FieldNames : \E v \in FieldValues[f] : ContextSet(f, v)
  \/ \E f \in FieldNames : \E v \in LogEntries : ContextAppendCall(f, v)

SpecCtx == InitCtx /\ [][NextCtx]_vars

\* an empty cache and no invocation yet
InitCache == InitCred /\ settings = SettingValues

NextCache ==
  \/ \E c \in Callers, k \in Keys, a \in Accounts : GetOrCompute(c, k, a)
  \/ \E k \in Keys, ok \in BOOLEAN : ComputeSettle(k, ok)
  \/ Tick

SpecCache == InitCache /\ [][NextCache]_vars

\* invocations of the remove-contact action of one destination object, each
\* with its own payload and settings
NextRemove ==
  \/ \E c \in Invocations, p \in RemovePayloads, a \in Accounts :
       RemoveValidatePayload(c, p, a)
  \/ \E c \in Invocations : RemoveCachedRequest(c)
  \/ \E k \in Keys, ok \in BOOLEAN : ComputeSettle(k, ok)
  \/ \E c \in Invocations : RemoveRequest(c)
  \/ \E c \in Invocations, ok \in BOOLEAN : RemoveDeleteSettle(c, ok)
  \/ Tick

SpecRemove == InitCache /\ [][NextRemove]_vars

\* one run of the push command
NextPush ==
  \/ \E chosenSlugs \in Selections, force \in BOOLEAN : PushSelect(chosenSlugs, force)
  \/ \E response \in MetadataResponses : PushMetadatasLoaded(response)
  \/ \E shouldContinue \in BOOLEAN : PushConfirm(shouldContinue)
  \/ \E n \in 1..MaxMetadatas, response \in WriteResponses, exits \in BOOLEAN :
       PushUpdateSettle(n, response, exits)
  \/ \E response \in ActionsResponses : PushActionsLoaded(response)
  \/ \E call \in {"update", "create"}, response \in WriteResponses :
       PushActionsWriteSettle(call, response)

SpecPush == InitCache /\ [][NextPush]_vars

\* the settings validation of the call raised
CredValidationFailed ==
  cred.schema.defined /\ ~ValidateSchema(cred.schema, settings)

\* C10 as stated: a testCredentials call that has finished succeeded or
\* failed with the generic error, and a call whose settings validation or
\* probe failed has failed with that error.
C10_Original ==
  cred.pc = "done" =>
    /\ cred.error \in {"none", "Credentials are invalid"}
    /\ (CredValidationFailed \/ cred.probe \notin {"none", "ok"}) =>
          cred.error = "Credentials are invalid"

(* ------------------- properties of the subscription list --------------- *)

\* the raw settings.subscriptions value
RawSubscriptions == settings["subscriptions"]

\* C11 as stated: when settings.subscriptions is neither a string nor an
\* array, the call fails as a whole with a subscription-parsing error, and no
\* subscription is evaluated and no action runs.
C11_Original ==
  (Called /\ RawSubscriptions.kind \notin {"string", "array"}) =>
    /\ onEvent.state = "rejected"
    /\ onEvent.error = "SubscriptionParseError"
    /\ tasks = <<>>
    /\ ctx = <<>>

\* the results a native subscription list yields when every task succeeds
NativeResult(l, ev) ==
  Flat([i \in 1..Len(l) |->
          IF ~validate(l[i].subscribe, ev)
          THEN <<[output |-> NotSubscribed]>>
          ELSE LET steps == Registry[l[i].partnerAction]
               IN  [k \in 1..Len(steps) |-> [output |-> StepOutput[l[i].partnerAction][steps[k]]]]])

\* the list each JSON text of the encoding table stands for
DecodingTable ==
  [t \in {EncodingTable[l] : l \in SubscriptionLists} |->
     CHOOSE l \in SubscriptionLists : EncodingTable[l] = t]

\* C12: for every list L, the call given the JSON text of L handles the same
\* list as the call given L itself: the same subscriptions in the same order,
\* one task each, and the same returned list.
C12_StringSameAsArray ==
  (RawSubscriptions.kind = "array"
     \/ (RawSubscriptions.kind = "string" /\ RawSubscriptions.value \in DOMAIN DecodingTable)) =>
    LET l == IF RawSubscriptions.kind = "array" THEN RawSubscriptions.value
             ELSE DecodingTable[RawSubscriptions.value]
    IN  /\ getSubscriptions(settings) = [kind |-> "array", value |-> l]
        /\ Called => Len(tasks) = Len(l)
        /\ onEvent.state = "resolved" => onEvent.value = NativeResult(l, event)

C12_Witness ==
  /\ RawSubscriptions.kind = "string"
  /\ onEvent.state = "resolved"
  /\ Len(tasks) = 2
  /\ tasks[1].results # tasks[2].results

\* the action of task i was handed an ExecuteInput
Dispatched(i) == tasks[i].state \in {"executing", "executed"} \/ tasks[i].stepsRun > 0

\* C13: the caller's settings keep every key and value, and each action is
\* handed those settings without the subscriptions key and nothing else changed.
C13_SettingsStripped ==
  Called =>
    /\ DOMAIN settings = DOMAIN SettingValues \cup {"subscriptions"}
    /\ \A k \in DOMAIN SettingValues : settings[k] = SettingValues[k]
    /\ RawSubscriptions \in SubscriptionSettings
    /\ \A i \in DOMAIN tasks :
         Dispatched(i) =>
           /\ DOMAIN tasks[i].input.settings = DOMAIN settings \ {"subscriptions"}
           /\ \A k \in DOMAIN tasks[i].input.settings : tasks[i].input.settings[k] = settings[k]

C13_Witness ==
  /\ Settled
  /\ \E i \in DOMAIN tasks : tasks[i].stepsRun > 0 /\ tasks[i].input.settings = SettingValues

ValidationFailed(i) == tasks[i].error = "ValidationError"

\* C14 as stated: when the validate step of a subscription rejected the
\* payload, the pipeline stopped there and the list onEvent returns holds
\* exactly one ValidationError entry.
C14_Original ==
  (Settled /\ \E i \in DOMAIN tasks : ValidationFailed(i)) =>
    /\ \A i \in DOMAIN tasks : ValidationFailed(i) => tasks[i].stepsRun = 1
    /\ onEvent.state = "resolved"
    /\ Cardinality({p \in DOMAIN onEvent.value : onEvent.value[p].output = "ValidationError"}) = 1

\* C17 as stated: handling an event writes no field of the Destination
\* object; the fields the builder calls set and the responses list are the
\* same after every step of onEvent.
C17_Original == [][UNCHANGED <<destVars, responses>>]_vars

\* C17: handling an event writes one field of the Destination object, the
\* responses list, and only by appending one response at its end; the actions,
\* the request extensions, the settings schema and the auth are never written.
C17_OnlyResponsesWritten ==
  [][/\ UNCHANGED destVars
     /\ \/ responses' = responses
        \/ /\ Len(responses') = Len(responses) + 1
           /\ SubSeq(responses', 1, Len(responses)) = responses]_vars

C17_Witness ==
  /\ onEvent.state = "resolved"
  /\ Len(responses) = 2
  /\ responses[1] # responses[2]
  /\ \A i \in DOMAIN tasks : tasks[i].state = "resolved"

\* C18 as stated: whatever the order of the extendRequest and partnerAction
\* calls, the extensions of every registered action are the extensions of
\* the destination.
C18_Original ==
  \A slug \in DOMAIN actionExtensions : actionExtensions[slug] = requestExtensions

\* the request of the testCredentials call has been composed
CredComposed == cred.pc = "probing" \/ cred.probe # "none"
\* the options extension i of the call returned
CredOptions(i) == ApplyExtension(cred.extensions[i], CredContext)
\* the positions of the extensions of the call that name option k
CredNamers(k) == {i \in DOMAIN cred.extensions : k \in DOMAIN CredOptions(i)}
\* the positions of the extensions of the call that give option k a value
CredSetters(k) == {i \in DOMAIN cred.extensions : IsDefined(CredOptions(i), k)}
\* the positions of the extensions of the call that give header h
HeaderSetters(h) ==
  {i \in CredNamers("headers") : h \in DOMAIN CredOptions(i)["headers"]}
\* the last position of a non-empty set of positions
LastOf(S) == CHOOSE i \in S : \A j \in S : j <= i
\* the options that hold one value
ScalarOptions == {"retry", "timeout", "prefixUrl"}

C20_Original ==
  [][/\ ctx' # ctx =>
          /\ Len(ctx') = Len(ctx) + 1
          /\ SubSeq(ctx', 1, Len(ctx)) = ctx
          /\ fields' = fields
     /\ fields' # fields => ctx' = ctx]_vars

\* the invocations of the cached step for key k that went to a computation
Flights(k) == {c \in Callers : calls[c].key = k /\ calls[c].flight > 0}

\* C15: invocations of the cached step with the same key that arrive while a
\* computation for the key is in flight start no computation of their own:
\* at no time do two computations for one key run, every computation started
\* for a key is the one some invocation waits for or has received, an
\* invocation still waiting waits for the latest one, and all invocations of
\* one computation receive the same outcome and value.
C15_SingleFlight ==
  \A k \in Keys :
    /\ running[k] <= 1
    /\ inflight[k].active <=> running[k] = 1
    /\ computes[k] = Cardinality({calls[c].flight : c \in Flights(k)})
    /\ \A c \in Flights(k) :
         /\ calls[c].pc = "waiting" => running[k] = 1 /\ calls[c].flight = computes[k]
         /\ \A d \in Flights(k) :
              (calls[c].flight = calls[d].flight /\ calls[c].pc = "done"
                 /\ calls[d].pc = "done") =>
                /\ calls[c].outcome = calls[d].outcome
                /\ calls[c].value = calls[d].value

C15_Witness ==
  \E k \in Keys : \E c, d \in Flights(k) :
    /\ c # d
    /\ computes[k] = 1
    /\ calls[c].flight = 1 /\ calls[d].flight = 1
    /\ calls[c].pc = "done" /\ calls[d].pc = "done"
    /\ calls[c].outcome = "computed"
    /\ calls[c].account # calls[d].account

\* the last computation for key k failed and none is running
FailedLast(k) == inflight[k].last = "fail" /\ ~inflight[k].active

\* C16: a failed computation stores nothing for its key, and the next
\* invocation for the key after the failure starts a new computation and
\* waits for it instead of returning a stored value or the failure.
C16_FailureNotCached ==
  [][\A k \in Keys :
       /\ (FailedLast(k))' => ~cache'[k].present
       /\ \A c \in Callers :
            (FailedLast(k) /\ calls[c].pc = "idle" /\ calls'[c].pc # "idle"
               /\ calls'[c].key = k) =>
              /\ computes'[k] = computes[k] + 1
              /\ running'[k] = 1
              /\ calls'[c].pc = "waiting"
              /\ calls'[c].flight = computes'[k]]_vars

C16_Witness ==
  \E k \in Keys : \E c, d \in Flights(k) :
    /\ calls[c].pc = "done" /\ calls[c].outcome = "failed" /\ calls[c].flight = 1
    /\ calls[d].pc = "done" /\ calls[d].outcome = "computed" /\ calls[d].flight = 2
    /\ cache[k].present

(* ------------------- predicate before action lookup --------------------- *)

\* C21: a subscription whose predicate does not match yields "not subscribed"
\* and raises nothing even when its slug is not registered; a task fails at
\* the action lookup exactly when a subscription with an unregistered slug
\* matches the event, and a call fails only when such a subscription exists
\* or a pipeline failed.
C21_PredicateBeforeLookup ==
  LET parsed == getSubscriptions(settings)
      subs == parsed.value
      matched(i) == validate(subs[i].subscribe, event)
      unknown(i) == subs[i].partnerAction \notin DOMAIN partnerActions
      lookupError(i) ==
        IF subs[i].partnerAction \in ObjectPrototype THEN "TypeError" ELSE "BadRequest"
  IN  (Called /\ parsed.kind = "array") =>
        /\ \A i \in DOMAIN subs :
             (~matched(i) /\ unknown(i)) =>
               /\ tasks[i].state = "resolved"
               /\ tasks[i].error = "none"
               /\ tasks[i].results = <<[output |-> NotSubscribed]>>
        /\ \A i \in DOMAIN subs :
             /\ tasks[i].stepsRun = 0 =>
                  (tasks[i].state = "rejected" <=> (matched(i) /\ unknown(i)))
             /\ (matched(i) /\ unknown(i)) => tasks[i].error = lookupError(i)
             /\ tasks[i].error = "BadRequest" => (matched(i) /\ unknown(i))
        /\ onEvent.state = "rejected" =>
             \E i \in DOMAIN subs : (matched(i) /\ unknown(i)) \/ PipelineFailed(i)

C21_Witness ==
  /\ onEvent.state = "resolved"
  /\ \E i, j \in DOMAIN Subs :
       /\ ~Matched(i) /\ ~Registered(i)
       /\ tasks[i].results = <<[output |-> NotSubscribed]>>
       /\ Matched(j) /\ tasks[j].stepsRun > 0

(* ------------------------ the remove-contact action --------------------- *)

RemoveOrder == <<"validatePayload", "cachedRequest", "request">>
\* the requests invocation c sent
SentBy(c) == {i \in DOMAIN outbox : outbox[i].by = c}

\* C22: the steps of the remove-contact action run in the order validate
\* payload, cached lookup, request; an invocation sends the delete, once and
\* for the looked-up id, only when its request step ran with a contactId that
\* is neither null nor undefined, and otherwise the step returns null and
\* nothing is sent; whether the delete then succeeds or fails changes nothing
\* of what was sent.
C22_DeleteOnlyWithContact ==
  /\ \A c \in Callers :
       /\ rc[c].ran = SubSeq(RemoveOrder, 1, Len(rc[c].ran))
       /\ rc[c].pc \in {"deleting", "done"} => rc[c].ran = RemoveOrder
       /\ IF rc[c].ran = RemoveOrder
          THEN IF rc[c].contactId \in {Null, Undefined}
               THEN rc[c].pc = "done" /\ rc[c].result = Null /\ SentBy(c) = {}
               ELSE /\ Cardinality(SentBy(c)) = 1
                    /\ \A i \in SentBy(c) : outbox[i].ids = rc[c].contactId
                    /\ rc[c].result = IF rc[c].pc = "done" THEN "deleted" ELSE "none"
          ELSE SentBy(c) = {}
  /\ \A i \in DOMAIN outbox :
       outbox[i].method = "DELETE" /\ outbox[i].ids \notin {Null, Undefined}

C22_Witness ==
  \E c, e \in Callers :
    /\ rc[c].pc = "done" /\ rc[c].contactId = Undefined /\ rc[c].result = Null
    /\ rc[c].email = "o'b@x.io"
    /\ rc[e].pc = "failed" /\ rc[e].ran = RemoveOrder /\ SentBy(e) # {}
    /\ Len(outbox) = 1

\* C23 as stated: the contactId the request step of an invocation received
\* from the lookup step was computed with the settings of that invocation.
C23_Original ==
  \A c \in Callers : rc[c].ran = RemoveOrder => rc[c].lookup.account = rc[c].account

(* ----------------------------- the push command ------------------------- *)

\* C24 as stated: every write the push command issues to the control plane
\* is for a destination the user confirmed; a destination skipped for having
\* no diff, or declined, has nothing written.
C24_Original ==
  \A i \in DOMAIN push.writes : push.writes[i].dest \in push.confirmed

====
